---- MODULE Spec2Model ----
(***************************************************************************)
(* Model of src/App.js: the odds-transform functions, the two market       *)
(* evaluators (findPositiveEvBetsForEvent, findBetterBetsThanPinny) and    *)
(* the request handlers that call them.                                    *)
(*                                                                         *)
(* JavaScript values are records [k, n, d]:                                *)
(*   k = "number"    the finite number n/d (in lowest terms, d > 0)        *)
(*   k = "nan"       NaN                                                   *)
(*   k = "inf"       Infinity (n = 1) or -Infinity (n = -1)                *)
(*   k = "string"    a string whose text is the decimal numeral of n/d     *)
(*   k = "undefined" undefined (an absent property)                        *)
(*   k = "null"      null                                                  *)
(* Numbers are exact rationals: the rounding of IEEE doubles is not        *)
(* modelled.                                                               *)
(***************************************************************************)
EXTENDS Integers, Sequences, FiniteSets, TLC

VARIABLES event, minOdds, maxOdds, call, ret, events, req, res

vars == <<event, minOdds, maxOdds, call, ret, events, req, res>>

(***************************************************************************)
(* JavaScript values and operators                                         *)
(***************************************************************************)
Abs(x) == IF x < 0 THEN -x ELSE x

Sign(x) == IF x < 0 THEN -1 ELSE IF x > 0 THEN 1 ELSE 0

RECURSIVE GCD(_, _)
GCD(a, b) == IF b = 0 THEN a ELSE GCD(b, a % b)

Num(n, d) ==
  LET g == GCD(Abs(n), Abs(d))
      s == IF d < 0 THEN -1 ELSE 1
  IN  [k |-> "number", n |-> (s * n) \div g, d |-> (s * d) \div g]

JsInt(n) == [k |-> "number", n |-> n, d |-> 1]

NaN == [k |-> "nan", n |-> 0, d |-> 1]

Infinity(s) == [k |-> "inf", n |-> s, d |-> 1]

Undefined == [k |-> "undefined", n |-> 0, d |-> 1]

Null == [k |-> "null", n |-> 0, d |-> 1]

Str(n, d) == [k |-> "string", n |-> n, d |-> d]

\* ToNumber, as applied by the relational and arithmetic operators
ToNumber(x) ==
  CASE x.k = "string"    -> Num(x.n, x.d)
    [] x.k = "undefined" -> NaN
    [] x.k = "null"      -> JsInt(0)
    [] OTHER             -> x

\* truncation of the rational n/d toward zero
Trunc(n, d) == Sign(n) * (Abs(n) \div d)

\* ParseInt with a fallback, as in parseInt(x) || 0
ParseInt_OrZero(x) ==
  CASE x.k = "string" -> JsInt(Trunc(x.n, x.d))
    [] x.k = "number" -> JsInt(Trunc(x.n, x.d))
    [] OTHER          -> JsInt(0)

\* parseInt(x): the integer prefix of String(x)
ParseInt(x) ==
  CASE x.k = "string" -> JsInt(Trunc(x.n, x.d))
    [] x.k = "number" -> JsInt(Trunc(x.n, x.d))
    [] OTHER          -> NaN

\* x === y
StrictEquals(x, y) ==
  /\ x.k = y.k
  /\ x.k # "nan"
  /\ x.n = y.n
  /\ x.d = y.d

\* the sign of a number that is not NaN
SignOf(x) == IF x.k = "inf" THEN x.n ELSE Sign(x.n)

\* x < y on numbers
NumLess(x, y) ==
  CASE x.k = "nan" \/ y.k = "nan"   -> FALSE
    [] x.k = "inf" /\ y.k = "inf"   -> x.n < y.n
    [] x.k = "inf"                  -> x.n < 0
    [] y.k = "inf"                  -> y.n > 0
    [] OTHER                        -> x.n * y.d < y.n * x.d

Lt(x, y) == NumLess(ToNumber(x), ToNumber(y))

Gt(x, y) == NumLess(ToNumber(y), ToNumber(x))

Le(x, y) ==
  LET a == ToNumber(x)
      b == ToNumber(y)
  IN  a.k # "nan" /\ b.k # "nan" /\ ~NumLess(b, a)

Ge(x, y) == Le(y, x)

NumAdd(x, y) ==
  CASE x.k = "nan" \/ y.k = "nan" -> NaN
    [] x.k = "inf" /\ y.k = "inf" -> IF x.n = y.n THEN x ELSE NaN
    [] x.k = "inf"                -> x
    [] y.k = "inf"                -> y
    [] OTHER                      -> Num(x.n * y.d + y.n * x.d, x.d * y.d)

NumMul(x, y) ==
  CASE x.k = "nan" \/ y.k = "nan" -> NaN
    [] x.k = "inf" \/ y.k = "inf" ->
         IF SignOf(x) * SignOf(y) = 0 THEN NaN
         ELSE Infinity(SignOf(x) * SignOf(y))
    [] OTHER                      -> Num(x.n * y.n, x.d * y.d)

\* x / y; a zero divisor is +0 wherever the program divides
NumDiv(x, y) ==
  CASE x.k = "nan" \/ y.k = "nan" -> NaN
    [] x.k = "inf" /\ y.k = "inf" -> NaN
    [] x.k = "inf"                ->
         Infinity(IF SignOf(y) < 0 THEN -x.n ELSE x.n)
    [] y.k = "inf"                -> JsInt(0)
    [] y.n = 0                    ->
         IF x.n = 0 THEN NaN ELSE Infinity(Sign(x.n))
    [] OTHER                      -> Num(x.n * y.d, x.d * y.n)

Add(x, y) == NumAdd(ToNumber(x), ToNumber(y))

Sub(x, y) == NumAdd(ToNumber(x), NumMul(JsInt(-1), ToNumber(y)))

Mul(x, y) == NumMul(ToNumber(x), ToNumber(y))

Div(x, y) == NumDiv(ToNumber(x), ToNumber(y))

(***************************************************************************)
(* The source registry                                                     *)
(***************************************************************************)
SPORTSBOOKS ==
  [fanduel  |-> "FanDuel",
   fanatics |-> "Fanatics",
   betmgm   |-> "BetMGM",
   fliff    |-> "Fliff",
   espnbet  |-> "ESPN Bet",
   caesars  |-> "Caesars",
   pinnacle |-> "Pinnacle"]

(***************************************************************************)
(* Odds transforms                                                         *)
(***************************************************************************)
\* the favourite's branch without the factor -1
convertAmericanOddsToDecimalOdds_NoNegate(americanOdds) ==
  IF Lt(americanOdds, JsInt(0))
    THEN Add(Div(JsInt(100), americanOdds), JsInt(1))
    ELSE Add(Div(americanOdds, JsInt(100)), JsInt(1))

convertAmericanOddsToDecimalOdds(americanOdds) ==
  IF Lt(americanOdds, JsInt(0))
    THEN Add(Mul(JsInt(-1), Div(JsInt(100), americanOdds)), JsInt(1))
    ELSE Add(Div(americanOdds, JsInt(100)), JsInt(1))

\* the favourite's branch with + in place of - in the divisor
convertAmericanOddsToImpliedProbability_Plus(americanOdds) ==
  IF Lt(americanOdds, JsInt(0))
    THEN Div(americanOdds, Add(americanOdds, JsInt(100)))
    ELSE Div(JsInt(100), Add(americanOdds, JsInt(100)))

convertAmericanOddsToImpliedProbability(americanOdds) ==
  IF Lt(americanOdds, JsInt(0))
    THEN Div(americanOdds, Sub(americanOdds, JsInt(100)))
    ELSE Div(JsInt(100), Add(americanOdds, JsInt(100)))

DefaultKellyFraction == Num(1, 4)

\* the stake without the scaling by kellyFraction
determineBetSizeUsingKellyCriterion_Full(bankroll, betOdds, trueOdds, kellyFraction) ==
  LET p     == convertAmericanOddsToImpliedProbability(trueOdds)
      q     == Sub(JsInt(1), p)
      b     == Sub(convertAmericanOddsToDecimalOdds(betOdds), JsInt(1))
      kelly == Div(Sub(Mul(b, p), q), b)
  IN  Mul(kelly, bankroll)

determineBetSizeUsingKellyCriterion(bankroll, betOdds, trueOdds, kellyFraction) ==
  LET p     == convertAmericanOddsToImpliedProbability(trueOdds)
      q     == Sub(JsInt(1), p)
      b     == Sub(convertAmericanOddsToDecimalOdds(betOdds), JsInt(1))
      kelly == Div(Sub(Mul(b, p), q), b)
  IN  Mul(Mul(kelly, kellyFraction), bankroll)

(***************************************************************************)
(* The market evaluators                                                   *)
(*                                                                         *)
(* An event is null or a record [eventID, odds]; odds is null, undefined   *)
(* or a mapping from market key to a market entry [fairOdds,               *)
(* fairOverUnder, bookOdds, bookOverUnder, byBookmaker]; byBookmaker is    *)
(* null, undefined or a mapping from book key to a quote [odds,            *)
(* overUnder].  The descriptive fields the evaluators copy unread          *)
(* (sportID, leagueID, type, team names and colours, marketName, sideID)   *)
(* are left out of the records.                                            *)
(***************************************************************************)
\* Object.keys(obj)
Keys(obj) == DOMAIN obj

\* obj[key]: undefined when obj has no such property
Get(obj, key) == IF key \in Keys(obj) THEN obj[key] ELSE Undefined

\* !x for x null, undefined or an object
Not(x) == x = Null \/ x = Undefined

\* ev of a bet at bookOdds against the reference odds
expectedValue(refOdds, bookOdds) ==
  Sub(Mul(convertAmericanOddsToImpliedProbability(refOdds),
          convertAmericanOddsToDecimalOdds(bookOdds)), JsInt(1))

\* the filter with >= in place of > against the fair price
fairGoodBookEntries_AtLeastFair(marketEntry, minO, maxO) ==
  LET fairOdds == ParseInt(marketEntry.fairOdds)
  IN  {k \in Keys(marketEntry.byBookmaker) :
         LET v == marketEntry.byBookmaker[k]
         IN  /\ k \in Keys(SPORTSBOOKS)
             /\ Ge(ParseInt(v.odds), fairOdds)
             /\ Le(ParseInt(v.odds), maxO)
             /\ Ge(ParseInt(v.odds), minO)
             /\ StrictEquals(v.overUnder, marketEntry.fairOverUnder)}

fairGoodBookEntries(marketEntry, minO, maxO) ==
  LET fairOdds == ParseInt(marketEntry.fairOdds)
  IN  {k \in Keys(marketEntry.byBookmaker) :
         LET v == marketEntry.byBookmaker[k]
         IN  /\ k \in Keys(SPORTSBOOKS)
             /\ Gt(ParseInt(v.odds), fairOdds)
             /\ Le(ParseInt(v.odds), maxO)
             /\ Ge(ParseInt(v.odds), minO)
             /\ StrictEquals(v.overUnder, marketEntry.fairOverUnder)}

\* the threshold test with >= in place of >
fairEvPasses_AtLeast(ev, minEV) == Ge(ev, minEV)

fairEvPasses(ev, minEV) == Gt(ev, minEV)

fairBetEntry(book, bookEntry, ev) ==
  [name      |-> Get(SPORTSBOOKS, book),
   odds      |-> ParseInt(bookEntry.odds),
   overUnder |-> bookEntry.overUnder,
   ev        |-> ev]

fairPositiveEvBets(marketEntry, minO, maxO, minEV) ==
  LET fairOdds == ParseInt(marketEntry.fairOdds)
      good     == fairGoodBookEntries(marketEntry, minO, maxO)
      evOf(b)  == expectedValue(fairOdds,
                                ParseInt(marketEntry.byBookmaker[b].odds))
  IN  [book \in {b \in good : fairEvPasses(evOf(b), minEV)} |->
         fairBetEntry(book, marketEntry.byBookmaker[book], evOf(book))]

\* the market entry is not deleted when it has no bet
fairMarketKept_NoDelete(marketEntry, minO, maxO, minEV) ==
  /\ ~Not(marketEntry.byBookmaker)
  /\ Cardinality(fairGoodBookEntries(marketEntry, minO, maxO)) > 0

\* the market has an entry in returnEventObject.odds when forEach is done
fairMarketKept(marketEntry, minO, maxO, minEV) ==
  /\ ~Not(marketEntry.byBookmaker)
  /\ Cardinality(fairGoodBookEntries(marketEntry, minO, maxO)) > 0
  /\ ~(Cardinality(Keys(fairPositiveEvBets(marketEntry, minO, maxO, minEV)))
         = 0)

fairMarketOpportunity(marketEntry, minO, maxO, minEV) ==
  [fairOdds       |-> ParseInt(marketEntry.fairOdds),
   fairOverUnder  |-> marketEntry.fairOverUnder,
   bookOdds       |-> ParseInt(marketEntry.bookOdds),
   bookOverUnder  |-> marketEntry.bookOverUnder,
   positiveEvBets |-> fairPositiveEvBets(marketEntry, minO, maxO, minEV)]

findPositiveEvBetsForEvent(ev, minO, maxO, minEV) ==
  IF Not(ev) \/ Not(ev.odds)
    THEN Null
    ELSE [eventID |-> ev.eventID,
          odds    |->
            [market \in {m \in Keys(ev.odds) :
                           fairMarketKept(ev.odds[m], minO, maxO, minEV)} |->
               fairMarketOpportunity(ev.odds[market], minO, maxO, minEV)]]

pinnyHasReference(marketEntry) ==
  ~(Not(marketEntry.byBookmaker)
      \/ ~("pinnacle" \in Keys(marketEntry.byBookmaker)))

pinnyOddsOf(marketEntry) == ParseInt(marketEntry.byBookmaker["pinnacle"].odds)

pinnyOverUnderOf(marketEntry) ==
  ParseInt(marketEntry.byBookmaker["pinnacle"].overUnder)

\* the filter without the test of the registry
pinnyGoodBookEntries_AnyBook(marketEntry, minO, maxO) ==
  LET pinnyOdds      == pinnyOddsOf(marketEntry)
      pinnyOverUnder == pinnyOverUnderOf(marketEntry)
  IN  {k \in Keys(marketEntry.byBookmaker) :
         LET v == marketEntry.byBookmaker[k]
         IN  /\ Gt(ParseInt(v.odds), pinnyOdds)
             /\ Le(ParseInt(v.odds), maxO)
             /\ Ge(ParseInt(v.odds), minO)
             /\ StrictEquals(v.overUnder, pinnyOverUnder)}

pinnyGoodBookEntries(marketEntry, minO, maxO) ==
  LET pinnyOdds      == pinnyOddsOf(marketEntry)
      pinnyOverUnder == pinnyOverUnderOf(marketEntry)
  IN  {k \in Keys(marketEntry.byBookmaker) :
         LET v == marketEntry.byBookmaker[k]
         IN  /\ k \in Keys(SPORTSBOOKS)
             /\ Gt(ParseInt(v.odds), pinnyOdds)
             /\ Le(ParseInt(v.odds), maxO)
             /\ Ge(ParseInt(v.odds), minO)
             /\ StrictEquals(v.overUnder, pinnyOverUnder)}

\* the threshold test with the comparison turned around
pinnyEvPasses_Flipped(ev, minEV) == Lt(ev, minEV)

pinnyEvPasses(ev, minEV) == Gt(ev, minEV)

pinnyBetEntry(book, bookEntry, ev) ==
  [name      |-> Get(SPORTSBOOKS, book),
   odds      |-> ParseInt(bookEntry.odds),
   overUnder |-> bookEntry.overUnder,
   ev        |-> ev]

pinnyPositiveEvBets(marketEntry, minO, maxO, minEV) ==
  LET pinnyOdds == pinnyOddsOf(marketEntry)
      good      == pinnyGoodBookEntries(marketEntry, minO, maxO)
      evOf(b)   == expectedValue(pinnyOdds,
                                 ParseInt(marketEntry.byBookmaker[b].odds))
  IN  [book \in {b \in good : pinnyEvPasses(evOf(b), minEV)} |->
         pinnyBetEntry(book, marketEntry.byBookmaker[book], evOf(book))]

pinnyMarketKept(marketEntry, minO, maxO, minEV) ==
  /\ pinnyHasReference(marketEntry)
  /\ Cardinality(pinnyGoodBookEntries(marketEntry, minO, maxO)) > 0
  /\ ~(Cardinality(Keys(pinnyPositiveEvBets(marketEntry, minO, maxO, minEV)))
         = 0)

pinnyMarketOpportunity(marketEntry, minO, maxO, minEV) ==
  [fairOdds       |-> ParseInt(marketEntry.fairOdds),
   fairOverUnder  |-> marketEntry.fairOverUnder,
   bookOdds       |-> ParseInt(marketEntry.bookOdds),
   bookOverUnder  |-> marketEntry.bookOverUnder,
   pinnyOdds      |-> pinnyOddsOf(marketEntry),
   pinnyOverUnder |-> pinnyOverUnderOf(marketEntry),
   positiveEvBets |-> pinnyPositiveEvBets(marketEntry, minO, maxO, minEV)]

findBetterBetsThanPinny(ev, minO, maxO, minEV) ==
  IF Not(ev) \/ Not(ev.odds)
    THEN Null
    ELSE [eventID |-> ev.eventID,
          odds    |->
            [market \in {m \in Keys(ev.odds) :
                           pinnyMarketKept(ev.odds[m], minO, maxO, minEV)} |->
               pinnyMarketOpportunity(ev.odds[market], minO, maxO, minEV)]]

(***************************************************************************)
(* Inputs                                                                  *)
(***************************************************************************)
\* lines are quoted in halves: 2, 2.5, ... up to MaxLineHalves / 2
MaxLineHalves == 5

\* a line is absent, a number, or (as the provider sends it) a string
Lines ==
  {Undefined, Str(5, 2)} \cup {Num(h, 2) : h \in 4..MaxLineHalves}

\* the provider sends odds as strings such as "-100" and "+120"
QuoteOdds == {Undefined, Str(-100, 1), Str(100, 1), Str(120, 1)}

Books == {"fanduel", "pinnacle", "draftkings"}

\* a quote without a price is taken without a line
QuotesOf(book) ==
  CASE book = "fanduel"  ->
         {q \in [odds : QuoteOdds, overUnder : Lines] :
            q.odds = Undefined => q.overUnder = Undefined}
    [] book = "pinnacle" ->
         {q \in [odds : {Undefined, Str(-100, 1)}, overUnder : Lines] :
            q.odds = Undefined => q.overUnder = Undefined}
    [] OTHER             ->
         [odds : {Str(120, 1)}, overUnder : {Num(4, 2)}]

ByBookmakerInputs ==
  {Null} \cup
  UNION {{f \in [S -> [odds : QuoteOdds, overUnder : Lines]] :
            \A b \in S : f[b] \in QuotesOf(b)} : S \in SUBSET Books}

MarketEntry(fairOdds, fairOverUnder, byBookmaker) ==
  [fairOdds      |-> fairOdds,
   fairOverUnder |-> fairOverUnder,
   bookOdds      |-> Str(-105, 1),
   bookOverUnder |-> fairOverUnder,
   byBookmaker   |-> byBookmaker]

\* a market without a fair price is taken without a fair line
MarketInputs ==
  {MarketEntry(fo, fl, bb) :
     fo \in {Undefined, Str(-100, 1)},
     fl \in Lines,
     bb \in ByBookmakerInputs} \
  {MarketEntry(Undefined, fl, bb) :
     fl \in Lines \ {Undefined}, bb \in ByBookmakerInputs}

Quote(odds, overUnder) == [odds |-> odds, overUnder |-> overUnder]

\* a market with bets in both modes, and one whose reference is unavailable
\* in both modes
SecondMarketInputs ==
  {MarketEntry(Str(-100, 1), Num(4, 2),
               [b \in {"fanduel", "betmgm", "pinnacle"} |->
                  CASE b = "fanduel" -> Quote(Str(120, 1), Num(4, 2))
                    [] b = "betmgm"  -> Quote(Str(100, 1), Num(4, 2))
                    [] OTHER         -> Quote(Str(-100, 1), Num(4, 2))]),
   MarketEntry(Undefined, Num(4, 2),
               [b \in {"fanduel"} |-> Quote(Str(120, 1), Num(4, 2))])}

EventOf(id, odds) == [eventID |-> id, odds |-> odds]

EventInputs ==
  {Null, EventOf("e1", Null), EventOf("e1", Undefined), EventOf("e1", << >>)}
  \cup {EventOf("e1", [m \in {"m1"} |-> m1]) : m1 \in MarketInputs}
  \cup {EventOf("e1", [m \in {"m1", "m2"} |-> IF m = "m1" THEN m1 ELSE m2]) :
          m1 \in MarketInputs, m2 \in SecondMarketInputs}

\* the handlers' defaults, and bounds from the query string
OddsBoundInputs ==
  {<<JsInt(-400), JsInt(300)>>,
   <<Str(100, 1), Str(100, 1)>>,
   <<Str(120, 1), Str(120, 1)>>}

MinEVInputs == {JsInt(0), Str(1, 10), Str(-1, 10)}

NoCall == [fn |-> "none", minEV |-> Undefined]

NoReq == [route |-> "none"]

(***************************************************************************)
(* The evaluators applied to one event                                     *)
(***************************************************************************)
Init ==
  /\ event \in EventInputs
  /\ \E b \in OddsBoundInputs : minOdds = b[1] /\ maxOdds = b[2]
  /\ call = NoCall
  /\ ret = Undefined
  /\ events = Undefined
  /\ req = NoReq
  /\ res = Undefined

CallFindPositiveEvBetsForEvent ==
  \E minEV \in MinEVInputs :
    /\ call' = [fn |-> "findPositiveEvBetsForEvent", minEV |-> minEV]
    /\ ret' = findPositiveEvBetsForEvent(event, minOdds, maxOdds, minEV)
    /\ UNCHANGED <<event, minOdds, maxOdds, events, req, res>>

CallFindBetterBetsThanPinny ==
  \E minEV \in MinEVInputs :
    /\ call' = [fn |-> "findBetterBetsThanPinny", minEV |-> minEV]
    /\ ret' = findBetterBetsThanPinny(event, minOdds, maxOdds, minEV)
    /\ UNCHANGED <<event, minOdds, maxOdds, events, req, res>>

Next == CallFindPositiveEvBetsForEvent \/ CallFindBetterBetsThanPinny

Spec == Init /\ [][Next]_vars

(***************************************************************************)
(* The request handlers                                                    *)
(*                                                                         *)
(* A response is [error, status, body]: status 200 with the value given to *)
(* res.json, or status 404; when the handler throws before it responds,    *)
(* error names the exception and status is 0.                              *)
(***************************************************************************)
\* a destructuring default: used when the query parameter is undefined
Default(x, dflt) == IF x = Undefined THEN dflt ELSE x

\* the test of the handlers' filter; it reads e.odds
HasOdds(e) == Cardinality(Keys(e.odds)) > 0

\* events.map(...).filter(...): reading .odds of a null result throws
FilterEvents(mapped) ==
  IF \E i \in 1..Len(mapped) : mapped[i] = Null
    THEN [error |-> "TypeError", status |-> 0, body |-> Undefined]
    ELSE [error |-> "none", status |-> 200,
          body |-> SelectSeq(mapped, HasOdds)]

positiveEvBetsHandler(query, fetched) ==
  LET minO  == Default(query.minOdds, JsInt(-400))
      maxO  == Default(query.maxOdds, JsInt(300))
      minEV == Default(query.minEV, JsInt(0))
  IN  IF Not(fetched)
        THEN [error |-> "none", status |-> 404, body |-> Undefined]
        ELSE FilterEvents([i \in 1..Len(fetched) |->
               findPositiveEvBetsForEvent(fetched[i], minO, maxO, minEV)])

pinnyBetsHandler(query, fetched) ==
  LET minO  == Default(query.minOdds, JsInt(-400))
      maxO  == Default(query.maxOdds, JsInt(300))
      minEV == Default(query.minEV, JsInt(0))
  IN  IF Not(fetched)
        THEN [error |-> "none", status |-> 404, body |-> Undefined]
        ELSE FilterEvents([i \in 1..Len(fetched) |->
               findBetterBetsThanPinny(fetched[i], minO, maxO, minEV)])

betsizeHandler(query) ==
  [error  |-> "none",
   status |-> 200,
   body   |-> determineBetSizeUsingKellyCriterion(ParseInt(query.bankroll),
                ParseInt(query.betOdds), ParseInt(query.trueOdds),
                DefaultKellyFraction)]

(***************************************************************************)
(* The batch handlers applied to what fetchOdds returned                   *)
(***************************************************************************)
MaxEvents == 2

\* a null event, an event without a market mapping, one with an empty
\* mapping, one with bets in both modes and one with a market but no bet
FetchedEventInputs ==
  {Null,
   EventOf("e1", Null),
   EventOf("e2", << >>),
   EventOf("e3", [m \in {"m1"} |->
      MarketEntry(Str(-100, 1), Num(4, 2),
                  [b \in {"fanduel", "pinnacle"} |->
                     IF b = "fanduel" THEN Quote(Str(120, 1), Num(4, 2))
                     ELSE Quote(Str(-100, 1), Num(4, 2))])]),
   EventOf("e4", [m \in {"m1"} |->
      MarketEntry(Str(-100, 1), Num(4, 2),
                  [b \in {"fanduel", "pinnacle"} |->
                     IF b = "fanduel" THEN Quote(Str(-100, 1), Num(4, 2))
                     ELSE Quote(Str(-100, 1), Num(4, 2))])])}

\* fetchOdds returns null on failure and the provider's list otherwise
FetchOddsInputs ==
  {Null} \cup UNION {[1..n -> FetchedEventInputs] : n \in 0..MaxEvents}

BatchQueryInputs ==
  {[minOdds |-> Undefined, maxOdds |-> Undefined, minEV |-> Undefined],
   [minOdds |-> Str(100, 1), maxOdds |-> Str(120, 1), minEV |-> Str(-1, 10)],
   [minOdds |-> Undefined, maxOdds |-> Str(100, 1), minEV |-> Str(1, 10)]}

InitBatch ==
  /\ events \in FetchOddsInputs
  /\ req = NoReq
  /\ res = Undefined
  /\ event = Undefined
  /\ minOdds = Undefined
  /\ maxOdds = Undefined
  /\ call = NoCall
  /\ ret = Undefined

GetPositiveEvBets ==
  \E query \in BatchQueryInputs :
    /\ req' = [route |-> "/positive-ev-bets", query |-> query]
    /\ res' = positiveEvBetsHandler(query, events)
    /\ UNCHANGED <<events, event, minOdds, maxOdds, call, ret>>

GetPinnyBets ==
  \E query \in BatchQueryInputs :
    /\ req' = [route |-> "/pinny-bets", query |-> query]
    /\ res' = pinnyBetsHandler(query, events)
    /\ UNCHANGED <<events, event, minOdds, maxOdds, call, ret>>

NextBatch == GetPositiveEvBets \/ GetPinnyBets

SpecBatch == InitBatch /\ [][NextBatch]_vars

(***************************************************************************)
(* The evaluators and /betsize side by side                                *)
(***************************************************************************)
\* /betsize is queried with odds that are multiples of 50 up to
\* 50 * MaxOddsSteps in either direction, zero included
MaxOddsSteps == 3

BetsizeOddsInputs ==
  {Undefined} \cup {Str(50 * i, 1) : i \in (-MaxOddsSteps)..MaxOddsSteps}

BetsizeQueryInputs ==
  [bankroll : {Undefined, Str(100, 1)},
   betOdds  : BetsizeOddsInputs,
   trueOdds : BetsizeOddsInputs]

StakeEventInputs ==
  {Null,
   EventOf("e1", [m \in {"m1"} |->
      MarketEntry(Str(-100, 1), Num(4, 2),
                  [b \in {"fanduel", "pinnacle"} |->
                     IF b = "fanduel" THEN Quote(Str(150, 1), Num(4, 2))
                     ELSE Quote(Str(-100, 1), Num(4, 2))])])}

InitStake ==
  /\ event \in StakeEventInputs
  /\ minOdds = JsInt(-400)
  /\ maxOdds = JsInt(300)
  /\ call = NoCall
  /\ ret = Undefined
  /\ events = Undefined
  /\ req = NoReq
  /\ res = Undefined

GetBetsize ==
  \E query \in BetsizeQueryInputs :
    /\ req' = [route |-> "/betsize", query |-> query]
    /\ res' = betsizeHandler(query)
    /\ UNCHANGED <<events, event, minOdds, maxOdds, call, ret>>

NextStake ==
  \/ CallFindPositiveEvBetsForEvent
  \/ CallFindBetterBetsThanPinny
  \/ GetBetsize

SpecStake == InitStake /\ [][NextStake]_vars

(***************************************************************************)
(* Properties                                                              *)
(***************************************************************************)
FairMode == call.fn = "findPositiveEvBetsForEvent"

PinnyMode == call.fn = "findBetterBetsThanPinny"

Called == FairMode \/ PinnyMode

\* the event given to the evaluator has a market mapping
HasMarkets == ~Not(event) /\ ~Not(event.odds)

\* the (market, book) pairs that have a bet in the result r
BetsOf(r) ==
  IF r = Null \/ r = Undefined
    THEN {}
    ELSE UNION {{<<m, b>> : b \in DOMAIN r.odds[m].positiveEvBets} :
                  m \in DOMAIN r.odds}

MarketsOf(r) == IF r = Null \/ r = Undefined THEN {} ELSE DOMAIN r.odds

BetAt(mb) == ret.odds[mb[1]].positiveEvBets[mb[2]]

InputQuote(mb) == event.odds[mb[1]].byBookmaker[mb[2]]

\* the reference of market m in the input: the fair price and line, or the
\* quote of pinnacle
ReferenceQuote(m) ==
  LET me == event.odds[m]
  IN  IF FairMode
        THEN Quote(me.fairOdds, me.fairOverUnder)
        ELSE IF ~Not(me.byBookmaker) /\ "pinnacle" \in DOMAIN me.byBookmaker
               THEN me.byBookmaker["pinnacle"]
               ELSE Quote(Undefined, Undefined)

RegistryKeys ==
  {"fanduel", "fanatics", "betmgm", "fliff", "espnbet", "caesars", "pinnacle"}

\* the quotes of market m, by book
QuotedBooks(m) ==
  IF Not(event.odds[m].byBookmaker) THEN {}
  ELSE DOMAIN event.odds[m].byBookmaker

\* two lines are the same line: both absent, or both present with the same
\* numeric value
SameLine(a, b) ==
  \/ a = Undefined /\ b = Undefined
  \/ a # Undefined /\ b # Undefined /\ a.n * b.d = b.n * a.d

\* the candidates of market m as the evaluator called selects them
Candidates(m) ==
  LET me == event.odds[m]
  IN  IF FairMode
        THEN IF Not(me.byBookmaker) THEN {}
             ELSE fairGoodBookEntries(me, minOdds, maxOdds)
        ELSE IF pinnyHasReference(me)
               THEN pinnyGoodBookEntries(me, minOdds, maxOdds)
               ELSE {}

\* implied probability, decimal odds and EV of integer prices, as fractions
ProbN(r) == IF r < 0 THEN -r ELSE 100

ProbD(r) == IF r < 0 THEN 100 - r ELSE r + 100

DecN(o) == IF o < 0 THEN 100 - o ELSE o + 100

DecD(o) == IF o < 0 THEN -o ELSE 100

EvN(r, o) == ProbN(r) * DecN(o) - ProbD(r) * DecD(o)

EvD(r, o) == ProbD(r) * DecD(o)

\* C1: every bet of a result is the quote of a price that is strictly
\* greater than the reference price of its market (the fair price, or the
\* price pinnacle quotes) and that lies within [minOdds, maxOdds], both
\* bounds included
C1_PriceAboveReferenceInRange ==
  \A mb \in BetsOf(ret) :
    LET q == InputQuote(mb)
        r == ReferenceQuote(mb[1])
    IN  /\ q.odds.k = "string"
        /\ r.odds.k = "string"
        /\ BetAt(mb).odds = JsInt(q.odds.n)
        /\ q.odds.n > r.odds.n
        /\ minOdds.n <= q.odds.n
        /\ q.odds.n <= maxOdds.n

\* a result holds a bet priced at a bound, while a registered quote at the
\* reference price and on the reference line has none
C1_Witness ==
  /\ Called /\ HasMarkets
  /\ \E mb \in BetsOf(ret) : InputQuote(mb).odds.n = maxOdds.n
  /\ \E m \in DOMAIN event.odds : \E b \in QuotedBooks(m) :
       /\ b \in RegistryKeys
       /\ event.odds[m].byBookmaker[b].odds = ReferenceQuote(m).odds
       /\ ReferenceQuote(m).odds.k = "string"
       /\ StrictEquals(event.odds[m].byBookmaker[b].overUnder,
                       ReferenceQuote(m).overUnder)
       /\ <<m, b>> \notin BetsOf(ret)

\* C2: no bet of a result is the quote of a line that differs from the
\* reference line of its market (the fair line, or the line of pinnacle's
\* quote)
C2_LineMismatchExcluded ==
  \A mb \in BetsOf(ret) :
    SameLine(InputQuote(mb).overUnder, ReferenceQuote(mb[1]).overUnder)

\* C3: every book that has a bet in a result is a key of the registry
C3_OnlyRegisteredBooks ==
  \A mb \in BetsOf(ret) : mb[2] \in RegistryKeys

\* a result holds a bet, while a draftkings quote above the reference
\* price, within the bounds and on the reference line has none
C3_Witness ==
  /\ Called /\ HasMarkets
  /\ BetsOf(ret) # {}
  /\ \E m \in DOMAIN event.odds :
       /\ "draftkings" \in QuotedBooks(m)
       /\ ReferenceQuote(m).odds.k = "string"
       /\ LET q == event.odds[m].byBookmaker["draftkings"]
          IN  /\ q.odds.n > ReferenceQuote(m).odds.n
              /\ minOdds.n <= q.odds.n /\ q.odds.n <= maxOdds.n
              /\ q.overUnder = ReferenceQuote(m).overUnder
       /\ <<m, "draftkings">> \notin BetsOf(ret)

\* C4: every market of a result has at least one bet
C4_NoEmptyMarket ==
  \A m \in MarketsOf(ret) : DOMAIN ret.odds[m].positiveEvBets # {}

\* a market with a candidate, all of whose candidates have an EV not above
\* minEV, is not in the result
C4_Witness ==
  /\ Called /\ HasMarkets
  /\ \E m \in DOMAIN event.odds :
       /\ Candidates(m) # {}
       /\ \A b \in Candidates(m) :
            EvN(ReferenceQuote(m).odds.n, InputQuote(<<m, b>>).odds.n)
              * call.minEV.d
              <= call.minEV.n
                   * EvD(ReferenceQuote(m).odds.n, InputQuote(<<m, b>>).odds.n)
       /\ m \notin MarketsOf(ret)

\* C5: a candidate has a bet in the result exactly when its EV,
\* impliedProbability(reference) * decimalOdds(price) - 1, is strictly
\* greater than minEV, and the bet's ev is that value; only candidates have
\* bets
C5_EvThreshold ==
  Called /\ HasMarkets =>
    /\ \A mb \in BetsOf(ret) : mb[2] \in Candidates(mb[1])
    /\ \A m \in DOMAIN event.odds : \A b \in Candidates(m) :
         LET r == ReferenceQuote(m).odds.n
             o == InputQuote(<<m, b>>).odds.n
         IN  /\ <<m, b>> \in BetsOf(ret)
                  <=> EvN(r, o) * call.minEV.d > call.minEV.n * EvD(r, o)
             /\ <<m, b>> \in BetsOf(ret)
                  => /\ BetAt(<<m, b>>).ev.k = "number"
                     /\ BetAt(<<m, b>>).ev.n * EvD(r, o)
                          = EvN(r, o) * BetAt(<<m, b>>).ev.d

\* a result holds a bet, while a candidate whose EV equals minEV has none
C5_Witness ==
  /\ Called /\ HasMarkets
  /\ BetsOf(ret) # {}
  /\ \E m \in DOMAIN event.odds : \E b \in Candidates(m) :
       /\ EvN(ReferenceQuote(m).odds.n, InputQuote(<<m, b>>).odds.n)
            * call.minEV.d
            = call.minEV.n
                * EvD(ReferenceQuote(m).odds.n, InputQuote(<<m, b>>).odds.n)
       /\ <<m, b>> \notin BetsOf(ret)

\* the value of a minEV parameter is at most that of another
MinEVAtMost(a, b) == a.n * b.d <= b.n * a.d

\* C7: when an evaluator is called again on the same event with the same
\* minOdds and maxOdds and a minEV that is not smaller, the bets of the new
\* result are among the bets of the previous one, and so are its markets
C7_MonotoneInMinEV ==
  [][(call.fn # "none" /\ call'.fn = call.fn
        /\ MinEVAtMost(call.minEV, call'.minEV))
       => /\ BetsOf(ret') \subseteq BetsOf(ret)
          /\ MarketsOf(ret') \subseteq MarketsOf(ret)
          /\ Cardinality(BetsOf(ret')) <= Cardinality(BetsOf(ret))]_vars

\* under minEV = 0 a market keeps the bet of one candidate and has lost the
\* bet of another, whose EV is 0
C7_Witness ==
  /\ Called /\ HasMarkets
  /\ call.minEV = JsInt(0)
  /\ \E m \in DOMAIN event.odds : \E b1, b2 \in Candidates(m) :
       /\ <<m, b1>> \in BetsOf(ret)
       /\ <<m, b2>> \notin BetsOf(ret)
       /\ EvN(ReferenceQuote(m).odds.n, InputQuote(<<m, b2>>).odds.n) = 0

\* the reference of market m is unavailable: the fair price is missing, or
\* pinnacle has no quote or no price in the market
ReferenceUnavailable(m) ==
  IF FairMode
    THEN event.odds[m].fairOdds = Undefined
    ELSE \/ "pinnacle" \notin QuotedBooks(m)
         \/ event.odds[m].byBookmaker["pinnacle"].odds = Undefined

WithoutMarket(e, m) ==
  EventOf(e.eventID, [x \in (DOMAIN e.odds) \ {m} |-> e.odds[x]])

Evaluate(e) ==
  IF FairMode
    THEN findPositiveEvBetsForEvent(e, minOdds, maxOdds, call.minEV)
    ELSE findBetterBetsThanPinny(e, minOdds, maxOdds, call.minEV)

\* C9: a market whose reference is unavailable has no entry in the result,
\* the evaluator still returns a result, and that result is the one the
\* evaluator returns for the event without the market
C9_MarketIsolation ==
  Called /\ HasMarkets =>
    \A m \in DOMAIN event.odds :
      ReferenceUnavailable(m) =>
        /\ ret # Null
        /\ m \notin MarketsOf(ret)
        /\ ret = Evaluate(WithoutMarket(event, m))

\* a market whose reference is unavailable holds a registered quote within
\* the bounds, and another market of the event has a bet in the result
C9_Witness ==
  /\ Called /\ HasMarkets
  /\ \E m \in DOMAIN event.odds :
       /\ ReferenceUnavailable(m)
       /\ \E b \in QuotedBooks(m) \cap RegistryKeys :
            /\ event.odds[m].byBookmaker[b].odds.k = "string"
            /\ minOdds.n <= event.odds[m].byBookmaker[b].odds.n
            /\ event.odds[m].byBookmaker[b].odds.n <= maxOdds.n
       /\ \E mb \in BetsOf(ret) : mb[1] # m

BetFields == {"name", "odds", "overUnder", "ev"}

\* (b*p - q) / b for integer prices, as a fraction: b = BN/BD is the net
\* decimal odds of the bet price o and p the implied probability of r
NetN(o) == IF o < 0 THEN 100 ELSE o

NetD(o) == IF o < 0 THEN -o ELSE 100

KellyN(o, r) == NetN(o) * ProbN(r) - (ProbD(r) - ProbN(r)) * NetD(o)

KellyD(o, r) == NetN(o) * ProbD(r)

IsPrice(x) == x.k = "string" /\ x.n # 0

IsFinite(x) == x.k = "number"

\* C8, as claimed: asked with a bankroll and two integer prices, /betsize
\* reports a zero price as an error, and never answers a stake that is not
\* finite
C8_DegeneracyReported ==
  (req.route = "/betsize" /\ req.query.bankroll # Undefined
     /\ req.query.betOdds # Undefined /\ req.query.trueOdds # Undefined) =>
    /\ (req.query.betOdds = Str(0, 1) \/ req.query.trueOdds = Str(0, 1))
         => (res.error # "none" \/ res.status # 200)
    /\ (res.error = "none" /\ res.status = 200) => IsFinite(res.body)

\* the event can be evaluated: it is not null and has a market mapping
Evaluable(e) == ~Not(e) /\ ~Not(e.odds)

EvaluateForRequest(e) ==
  LET minO  == Default(req.query.minOdds, JsInt(-400))
      maxO  == Default(req.query.maxOdds, JsInt(300))
      minEV == Default(req.query.minEV, JsInt(0))
  IN  IF req.route = "/positive-ev-bets"
        THEN findPositiveEvBetsForEvent(e, minO, maxO, minEV)
        ELSE findBetterBetsThanPinny(e, minO, maxO, minEV)

\* C10, as claimed: when fetchOdds returned a list, the batch handlers
\* answer the results of the events that can be evaluated and have at least
\* one market in their result; null events and events without a market
\* mapping are dropped and no error is raised
C10_AbsentEventsDropped ==
  (req.route \in {"/positive-ev-bets", "/pinny-bets"} /\ ~Not(events)) =>
    /\ res.error = "none"
    /\ res.status = 200
    /\ LET present == SelectSeq(events, Evaluable)
           mapped  == [i \in 1..Len(present) |->
                         EvaluateForRequest(present[i])]
       IN  res.body = SelectSeq(mapped, HasOdds)

\* the bets of market m in the result r, by book
BetsOfMarket(r, m) ==
  IF m \in MarketsOf(r) THEN r.odds[m].positiveEvBets ELSE << >>

\* the result of the evaluator that was not called, for the same arguments
EvaluateOtherMode(e) ==
  IF FairMode
    THEN findBetterBetsThanPinny(e, minOdds, maxOdds, call.minEV)
    ELSE findPositiveEvBetsForEvent(e, minOdds, maxOdds, call.minEV)

\* pinnacle quotes market m at the fair price and on the fair line
PinnacleQuotesFair(m) ==
  /\ "pinnacle" \in QuotedBooks(m)
  /\ event.odds[m].fairOdds.k = "string"
  /\ event.odds[m].byBookmaker["pinnacle"].odds = event.odds[m].fairOdds
  /\ event.odds[m].byBookmaker["pinnacle"].overUnder
       = event.odds[m].fairOverUnder

\* C11, as claimed: for a market that pinnacle quotes at the fair price and
\* on the fair line (a fractional line and an absent line included), the two
\* evaluators return the same bets, with the same prices, lines and EVs
C11_ReferenceBySourceEquivalent ==
  Called /\ HasMarkets =>
    \A m \in DOMAIN event.odds :
      PinnacleQuotesFair(m) =>
        BetsOfMarket(ret, m) = BetsOfMarket(EvaluateOtherMode(event), m)

(***************************************************************************)
(* The odds transforms applied to one price                                *)
(***************************************************************************)
\* the transforms are applied to every integer from -MaxAmericanOdds to
\* MaxAmericanOdds, zero included
MaxAmericanOdds == 200

AmericanOddsInputs == {JsInt(p) : p \in (-MaxAmericanOdds)..MaxAmericanOdds}

InitOdds ==
  /\ call = NoCall
  /\ ret = Undefined
  /\ event = Undefined
  /\ minOdds = Undefined
  /\ maxOdds = Undefined
  /\ events = Undefined
  /\ req = NoReq
  /\ res = Undefined

CallConvertAmericanOddsToDecimalOdds ==
  \E americanOdds \in AmericanOddsInputs :
    /\ call' = [fn |-> "convertAmericanOddsToDecimalOdds",
                americanOdds |-> americanOdds]
    /\ ret' = convertAmericanOddsToDecimalOdds(americanOdds)
    /\ UNCHANGED <<event, minOdds, maxOdds, events, req, res>>

CallConvertAmericanOddsToImpliedProbability ==
  \E americanOdds \in AmericanOddsInputs :
    /\ call' = [fn |-> "convertAmericanOddsToImpliedProbability",
                americanOdds |-> americanOdds]
    /\ ret' = convertAmericanOddsToImpliedProbability(americanOdds)
    /\ UNCHANGED <<event, minOdds, maxOdds, events, req, res>>

NextOdds ==
  \/ CallConvertAmericanOddsToDecimalOdds
  \/ CallConvertAmericanOddsToImpliedProbability

SpecOdds == InitOdds /\ [][NextOdds]_vars

\* C12: for a nonzero integer price p, the implied probability is strictly
\* between 0 and 1; it is |p| / (|p| + 100) for p < 0 and 100 / (p + 100)
\* for p > 0
C12_ImpliedProbabilityInUnitInterval ==
  (call.fn = "convertAmericanOddsToImpliedProbability"
     /\ call.americanOdds.n # 0) =>
    LET p == call.americanOdds.n
    IN  /\ ret.k = "number"
        /\ 0 < ret.n
        /\ ret.n < ret.d
        /\ p < 0 => ret.n * (Abs(p) + 100) = Abs(p) * ret.d
        /\ p > 0 => ret.n * (p + 100) = 100 * ret.d

\* the implied probability of -150 has been computed, and it is 3/5
C12_Witness ==
  /\ call.fn = "convertAmericanOddsToImpliedProbability"
  /\ call.americanOdds = JsInt(-150)
  /\ ret = Num(3, 5)

(***************************************************************************)
(* The evaluators applied to one quote against one reference price         *)
(***************************************************************************)
\* prices are all integers p with 100 <= |p| <= MaxAbsOdds, and the
\* multiples of 25 below 100 in absolute value, zero included
MaxAbsOdds == 110

PriceInputs ==
  {p \in (-MaxAbsOdds)..MaxAbsOdds : Abs(p) >= 100 \/ Abs(p) % 25 = 0}

\* one market on line 2 whose fair price and pinnacle price are r, and which
\* fanduel quotes at o
PriceEvent(r, o) ==
  EventOf("e1", [m \in {"m1"} |->
    MarketEntry(Str(r, 1), Num(4, 2),
                [b \in {"fanduel", "pinnacle"} |->
                   IF b = "fanduel" THEN Quote(Str(o, 1), Num(4, 2))
                   ELSE Quote(Str(r, 1), Num(4, 2))])])

InitPrices ==
  /\ event \in {PriceEvent(r, o) : r \in PriceInputs, o \in PriceInputs}
  /\ minOdds = JsInt(-400)
  /\ maxOdds = JsInt(300)
  /\ call = NoCall
  /\ ret = Undefined
  /\ events = Undefined
  /\ req = NoReq
  /\ res = Undefined

SpecPrices == InitPrices /\ [][Next]_vars

\* book b quotes market m on the reference line, an integer line, at a price
\* o above the reference price r and within the bounds, with |r| >= 100 and
\* |o| >= 100
EligibleAtValidPrices(m, b) ==
  LET q   == event.odds[m].byBookmaker[b]
      ref == ReferenceQuote(m)
  IN  /\ b \in RegistryKeys
      /\ q.odds.k = "string" /\ ref.odds.k = "string"
      /\ Abs(q.odds.n) >= 100 /\ Abs(ref.odds.n) >= 100
      /\ q.odds.n > ref.odds.n
      /\ minOdds.n <= q.odds.n /\ q.odds.n <= maxOdds.n
      /\ ref.overUnder.k = "number" /\ ref.overUnder.d = 1
      /\ q.overUnder = ref.overUnder

IsEvenMoneyPair(m, b) ==
  /\ ReferenceQuote(m).odds.n = -100
  /\ event.odds[m].byBookmaker[b].odds.n = 100

\* C13: for a quote at a price o above the reference price r, with
\* |r| >= 100 and |o| >= 100, the EV is not negative and is zero only for
\* r = -100, o = 100: under minEV = -0.1 the quote has a bet whose ev is
\* >= 0, and under minEV = 0 it has a bet unless r = -100 and o = 100
C13_NonNegativeEvAtValidPrices ==
  Called /\ HasMarkets =>
    \A m \in DOMAIN event.odds : \A b \in QuotedBooks(m) :
      EligibleAtValidPrices(m, b) =>
        /\ call.minEV = Str(-1, 10) =>
             /\ <<m, b>> \in BetsOf(ret)
             /\ BetAt(<<m, b>>).ev.k = "number"
             /\ BetAt(<<m, b>>).ev.n >= 0
             /\ BetAt(<<m, b>>).ev.n = 0 <=> IsEvenMoneyPair(m, b)
        /\ call.minEV = JsInt(0) =>
             (<<m, b>> \in BetsOf(ret) <=> ~IsEvenMoneyPair(m, b))

\* under minEV = 0 the quote at +100 against the reference -100 has no bet
C13_Witness ==
  /\ Called /\ HasMarkets
  /\ call.minEV = JsInt(0)
  /\ \E m \in DOMAIN event.odds : \E b \in QuotedBooks(m) :
       /\ EligibleAtValidPrices(m, b)
       /\ IsEvenMoneyPair(m, b)
       /\ <<m, b>> \notin BetsOf(ret)

====
